---- MODULE Spec2Model ----
(***************************************************************************)
(* Bank statement extraction pipeline: text acquisition with OCR fallback  *)
(* (PDFTextService), inference (BankStatementProcessor.process) and the    *)
(* recovery / parse / validation stages of BankStatementService.           *)
(*                                                                         *)
(* Text is a sequence of tokens.  "{" and "}" are the brace characters,    *)
(* "q" is a double quote, "_" and "n" are whitespace (blank, newline),     *)
(* "x" is a run of other characters.  The remaining tokens are runs of     *)
(* characters without a brace that form one JSON member (key, colon,       *)
(* value, separator), so that no slice taken at a brace cuts through them. *)
(***************************************************************************)
EXTENDS Integers, Sequences, FiniteSets, TLC

LB == "{"
RB == "}"
QT == "q"
WS == "_"
NL == "n"
PR == "x"

\* Bounds of the model.
MaxLen == 3
MaxPages == 2
MaxTextLen == 2
MaxTempFiles == 2
MaxRequests == 2

\* ------------------------------------------------------------------ strings

\* str.strip() removes leading and trailing whitespace.
IsSpace(c) == c \in {WS, NL}

RECURSIVE LStrip(_)
LStrip(s) ==
    IF s = <<>> THEN s
    ELSE IF IsSpace(Head(s)) THEN LStrip(Tail(s)) ELSE s

RECURSIVE RStrip(_)
RStrip(s) ==
    IF s = <<>> THEN s
    ELSE IF IsSpace(s[Len(s)]) THEN RStrip(SubSeq(s, 1, Len(s) - 1)) ELSE s

Strip(s) == RStrip(LStrip(s))

\* str.find(c): index of the first c, 0 where Python gives -1 (indices from 1).
RECURSIVE FindFrom(_, _, _)
FindFrom(s, c, i) ==
    IF i > Len(s) THEN 0
    ELSE IF s[i] = c THEN i ELSE FindFrom(s, c, i + 1)

Find(s, c) == FindFrom(s, c, 1)

\* `not text_content or not text_content.strip()`
IsBlankStripMissing(text) == text = <<>>
IsBlank(text) == text = <<>> \/ Strip(text) = <<>>

\* ------------------------------------------------- _extract_json_from_text

\* The for loop of _extract_json_from_text: the index of the '}' at which
\* brace_count returns to zero, 0 when the end of text is reached first.
RECURSIVE ScanNaive(_, _, _)
ScanNaive(text, i, brace_count) ==
    IF i > Len(text) THEN 0
    ELSE IF text[i] = RB THEN i
    ELSE ScanNaive(text, i + 1, brace_count)

RECURSIVE ScanPartial(_, _, _)
ScanPartial(text, i, brace_count) ==
    IF i > Len(text) THEN Len(text)
    ELSE IF text[i] = LB THEN ScanPartial(text, i + 1, brace_count + 1)
    ELSE IF text[i] = RB
         THEN IF brace_count - 1 = 0 THEN i
              ELSE ScanPartial(text, i + 1, brace_count - 1)
    ELSE ScanPartial(text, i + 1, brace_count)

RECURSIVE ScanBracesOutsideStrings(_, _, _)
ScanBracesOutsideStrings(text, i, brace_count) ==
    IF i > Len(text) THEN 0
    ELSE IF Cardinality({k \in 1..(i - 1) : text[k] = QT}) % 2 = 1
    THEN ScanBracesOutsideStrings(text, i + 1, brace_count)
    ELSE IF text[i] = LB
    THEN ScanBracesOutsideStrings(text, i + 1, brace_count + 1)
    ELSE IF text[i] = RB
         THEN IF brace_count - 1 = 0 THEN i
              ELSE ScanBracesOutsideStrings(text, i + 1, brace_count - 1)
    ELSE ScanBracesOutsideStrings(text, i + 1, brace_count)

RECURSIVE ScanBraces(_, _, _)
ScanBraces(text, i, brace_count) ==
    IF i > Len(text) THEN 0
    ELSE IF text[i] = LB THEN ScanBraces(text, i + 1, brace_count + 1)
    ELSE IF text[i] = RB
         THEN IF brace_count - 1 = 0 THEN i
              ELSE ScanBraces(text, i + 1, brace_count - 1)
    ELSE ScanBraces(text, i + 1, brace_count)

ExtractJsonNoStartCheck(raw) ==
    LET text == Strip(raw)
        start_idx == Find(text, LB)
    IN  IF start_idx = 0 THEN text
        ELSE LET end_idx == ScanBraces(text, start_idx, 0)
             IN  IF end_idx = 0 THEN <<>>
                 ELSE Strip(SubSeq(text, start_idx, end_idx))

ExtractJson(raw) ==
    LET text == Strip(raw)
        start_idx == Find(text, LB)
    IN  IF start_idx = 0 THEN <<>>
        ELSE LET end_idx == ScanBraces(text, start_idx, 0)
             IN  IF end_idx = 0 THEN <<>>
                 ELSE Strip(SubSeq(text, start_idx, end_idx))

\* ------------------------------------------------------------- json.loads

\* Tokens that are one complete member without a brace:
\*   bnA, bnB  "bank_name": "A" / "B"      sd  "start_date": "2024-01-01"
\*   ac0  "accounts": []                   ed  "end_date": "2024-01-31"
\*   acS  "accounts": "n/a"
\* and the keys whose value follows as a string (q ... q) or an object:
\*   sp   "statement_period":              nt  "note":
SimpleMembers == {"bnA", "bnB", "sd", "ed", "ac0", "acS"}
KeyTokens == {"sp", "nt"}

NoPeriod == [kind |-> "absent", start_date |-> "absent", end_date |-> "absent"]

\* A parsed JSON object (a Python dict), "absent" for a key it does not have.
EmptyObj ==
    [bank_name |-> "absent", statement_period |-> NoPeriod,
     accounts |-> "absent", start_date |-> "absent", end_date |-> "absent",
     note |-> "absent", processed_at |-> "absent",
     processing_time_seconds |-> "absent", extraction_method |-> "absent"]

ParseFail == [ok |-> FALSE, pos |-> 0, kind |-> "none", val |-> EmptyObj]

RECURSIVE SkipWs(_, _)
SkipWs(s, i) ==
    IF i > Len(s) THEN i
    ELSE IF IsSpace(s[i]) THEN SkipWs(s, i + 1) ELSE i

ApplyMember(acc, tok) ==
    CASE tok = "bnA" -> [acc EXCEPT !.bank_name = "A"]
      [] tok = "bnB" -> [acc EXCEPT !.bank_name = "B"]
      [] tok = "sd" -> [acc EXCEPT !.start_date = "2024-01-01"]
      [] tok = "ed" -> [acc EXCEPT !.end_date = "2024-01-31"]
      [] tok = "ac0" -> [acc EXCEPT !.accounts = "list"]
      [] tok = "acS" -> [acc EXCEPT !.accounts = "str"]
      [] OTHER -> acc

ApplyKeyed(acc, key, v) ==
    IF key = "sp"
    THEN [acc EXCEPT !.statement_period =
              IF v.kind = "dict"
              THEN [kind |-> "dict", start_date |-> v.val.start_date,
                    end_date |-> v.val.end_date]
              ELSE [kind |-> v.kind, start_date |-> "absent",
                    end_date |-> "absent"]]
    ELSE [acc EXCEPT !.note = v.kind]

RECURSIVE ParseMembers(_, _, _)
RECURSIVE ParseValue(_, _)

\* A string value: from a quote to the next quote.
ParseString(s, i) ==
    LET j == FindFrom(s, QT, i + 1)
    IN  IF j = 0 THEN ParseFail
        ELSE [ok |-> TRUE, pos |-> j + 1, kind |-> "str", val |-> EmptyObj]

\* The members of an object up to its closing brace.
ParseMembers(s, i0, acc) ==
    LET i == SkipWs(s, i0)
    IN  IF i > Len(s) THEN ParseFail
        ELSE IF s[i] = RB
             THEN [ok |-> TRUE, pos |-> i + 1, kind |-> "dict", val |-> acc]
        ELSE IF s[i] \in SimpleMembers
             THEN ParseMembers(s, i + 1, ApplyMember(acc, s[i]))
        ELSE IF s[i] \in KeyTokens
             THEN LET v == ParseValue(s, SkipWs(s, i + 1))
                  IN  IF ~v.ok THEN ParseFail
                      ELSE ParseMembers(s, v.pos, ApplyKeyed(acc, s[i], v))
        ELSE ParseFail

ParseValue(s, i) ==
    IF i > Len(s) THEN ParseFail
    ELSE IF s[i] = QT THEN ParseString(s, i)
    ELSE IF s[i] = LB THEN ParseMembers(s, i + 1, EmptyObj)
    ELSE ParseFail

\* json.loads: one value, whitespace around it, nothing else.
ParseJson(s) ==
    LET v == ParseValue(s, SkipWs(s, 1))
    IN  IF v.ok /\ SkipWs(s, v.pos) > Len(s) THEN v ELSE ParseFail

\* ---------------------------------------------- _validate_result_structure

ValidateNoAccountsCheck(result) ==
    /\ result.bank_name # "absent"
    /\ result.statement_period.kind # "absent"
    /\ result.accounts # "absent"
    /\ result.statement_period.kind = "dict"
    /\ result.statement_period.start_date # "absent"
    /\ result.statement_period.end_date # "absent"

ValidateResultStructure(result) ==
    IF \/ result.bank_name = "absent"
       \/ result.statement_period.kind = "absent"
       \/ result.accounts = "absent"
    THEN FALSE
    ELSE IF result.statement_period.kind # "dict" THEN FALSE
    ELSE IF \/ result.statement_period.start_date = "absent"
            \/ result.statement_period.end_date = "absent"
    THEN FALSE
    ELSE IF result.accounts # "list" THEN FALSE
    ELSE TRUE

\* ------------------------------------------------------------ result dicts

\* The data field: None, the raw response, a parsed object, the diagnostic
\* payload {raw_output, extracted_content, parse_error} or extracted text.
NoData == [kind |-> "none", raw |-> <<>>, extracted |-> <<>>, obj |-> EmptyObj]
RawData(r) == [NoData EXCEPT !.kind = "raw", !.raw = r]
ObjData(o) == [NoData EXCEPT !.kind = "dict", !.obj = o]
DiagDataNoRaw(r, e) == [NoData EXCEPT !.kind = "diag", !.extracted = e]
DiagData(r, e) == [NoData EXCEPT !.kind = "diag", !.raw = r, !.extracted = e]
TextData(t) == [NoData EXCEPT !.kind = "text", !.raw = t]

\* method_used is "absent" in the results of BankStatementService, which
\* have no such key, and "None" where the code stores None.
MkResult(success, message, error, data, method_used) ==
    [success |-> success, message |-> message, error |-> error,
     data |-> data, method_used |-> method_used]

NoResult == MkResult(FALSE, "", "", NoData, "absent")

ModelNotLoadedResult ==
    MkResult(FALSE, "AI model not loaded", "MODEL_NOT_LOADED", NoData, "absent")

TextEmptyResult ==
    MkResult(FALSE, "Empty text content provided", "TEXT_EMPTY", NoData, "absent")

\* except Exception as e: error is str(e), written "EXC:" and what raised.
ProcessTextExceptionNullError(what) ==
    MkResult(FALSE, "Failed to process bank statement", "None", NoData, "absent")
ProcessTextException(what) ==
    MkResult(FALSE, "Failed to process bank statement", what, NoData, "absent")

\* parsed_result["processed_at"] and parsed_result["processing_time_seconds"]
StampProcessedAtOnly(o) == [o EXCEPT !.processed_at = "time"]
Stamp(o) ==
    [o EXCEPT !.processed_at = "time", !.processing_time_seconds = "time"]

\* process_text from the return of processor.process to its own return.
FinishProcessText(response) ==
    LET json_content == ExtractJson(response)
    IN  IF json_content = <<>>
        THEN MkResult(FALSE, "AI model output does not contain valid JSON",
                      "NO_JSON_FOUND", RawData(response), "absent")
        ELSE LET p == ParseJson(json_content)
             IN  IF ~p.ok
                 THEN MkResult(FALSE, "AI model returned invalid JSON format",
                               "INVALID_JSON_FORMAT",
                               DiagData(response, json_content), "absent")
                 ELSE IF p.kind # "dict"
                 THEN ProcessTextException("EXC:TypeError")
                 ELSE LET parsed_result == Stamp(p.val)
                      IN  IF ~ValidateResultStructure(parsed_result)
                          THEN MkResult(FALSE,
                                        "AI model returned invalid data structure",
                                        "INVALID_AI_OUTPUT",
                                        ObjData(parsed_result), "absent")
                          ELSE MkResult(TRUE,
                                        "Bank statement processed successfully",
                                        "None", ObjData(parsed_result), "absent")

\* The stages process_text enters once processor.process has returned: the
\* recovery always, json.loads when something was recovered, the validator
\* when that parsed to an object.
StagesRun(response) ==
    <<"recovery">> \o
       (IF ExtractJson(response) = <<>> THEN <<>>
        ELSE <<"parse">> \o
               (IF ParseJson(ExtractJson(response)).ok
                   /\ ParseJson(ExtractJson(response)).kind = "dict"
                THEN <<"validation">> ELSE <<>>))

\* `except Exception as e`: every fault of the stages is an Exception.
CatchesOnlyJsonError(what) == what = "EXC:JSONDecodeError"
CatchesException(what) == TRUE

PdfServiceNotAvailableResult ==
    MkResult(FALSE, "PDF text extraction service not available",
             "PDF_SERVICE_NOT_AVAILABLE", NoData, "absent")

\* except Exception as e of process_file
ProcessFileException(what) ==
    MkResult(FALSE, "Failed to process PDF file", what, NoData, "absent")

\* ------------------------------------------------ BankStatementProcessor

\* The string prepare_prompt returns: the user header, a statement text
\* written into the template, the end marker and the assistant header.
PromptHead == <<"<|im_start|>user">>
PromptSample == <<"SGD Current Account Account Number 04171089735">>
PromptTail == <<"<|im_end|>", "<|im_start|>assistant">>

\* prepare_prompt returns the template as it is: pdf_text is not used.
PreparePrompt(pdf_text) == PromptHead \o PromptSample \o PromptTail

\* -------------------------------------------------------- PDFTextService

\* is_service_available
IsServiceAvailable(reader, ocr) == reader \/ ocr

\* The text the page loops of _extract_text_directly and
\* _extract_text_with_ocr build: every non-empty page text and a newline.
RECURSIVE JoinPages(_)
JoinPages(pages) ==
    IF pages = <<>> THEN <<>>
    ELSE IF Head(pages) # <<>>
         THEN Head(pages) \o <<NL>> \o JoinPages(Tail(pages))
         ELSE JoinPages(Tail(pages))

NoLibrariesResult ==
    MkResult(FALSE, "No PDF text extraction libraries available",
             "NO_EXTRACTION_LIBRARIES", NoData, "None")

OcrNotAvailableResult ==
    MkResult(FALSE, "Direct text extraction failed and OCR not available",
             "OCR_NOT_AVAILABLE", NoData, "none")

\* except Exception as e in extract_text_from_pdf_bytes
ExtractException(what) ==
    MkResult(FALSE, "Failed to extract text", what, NoData, "None")

\* _extract_text_directly on the pages PyPDF2 reads, or on its exception.
DirectResult(raised, pages) ==
    IF raised
    THEN MkResult(FALSE, "Direct text extraction failed", "EXC:PdfReadError",
                  NoData, "direct")
    ELSE LET extracted_text == Strip(JoinPages(pages))
         IN  IF extracted_text # <<>>
             THEN MkResult(TRUE, "Successfully extracted text directly",
                           "None", TextData(extracted_text), "direct")
             ELSE MkResult(FALSE, "No text found using direct extraction",
                           "NO_TEXT_FOUND", NoData, "direct")

\* _extract_text_with_ocr on the page texts tesseract gives, or on an exception.
OcrResultUntrimmed(raised, pages) ==
    IF raised
    THEN MkResult(FALSE, "OCR extraction failed", "EXC:TesseractError",
                  NoData, "ocr")
    ELSE LET extracted_text == JoinPages(pages)
         IN  IF extracted_text # <<>>
             THEN MkResult(TRUE, "Successfully extracted text using OCR",
                           "None", TextData(extracted_text), "ocr")
             ELSE MkResult(FALSE, "No text found using OCR",
                           "NO_TEXT_FOUND", NoData, "ocr")

OcrResult(raised, pages) ==
    IF raised
    THEN MkResult(FALSE, "OCR extraction failed", "EXC:TesseractError",
                  NoData, "ocr")
    ELSE LET extracted_text == Strip(JoinPages(pages))
         IN  IF extracted_text # <<>>
             THEN MkResult(TRUE, "Successfully extracted text using OCR",
                           "None", TextData(extracted_text), "ocr")
             ELSE MkResult(FALSE, "No text found using OCR",
                           "NO_TEXT_FOUND", NoData, "ocr")

\* `result["success"] and result["data"] and result["data"].strip()`
DirectAcceptedAnyResult(r) == r.method_used = "direct"
DirectAcceptedNever(r) == FALSE
DirectAcceptedOrRaised(r) ==
    \/ r.success /\ r.data.raw # <<>> /\ Strip(r.data.raw) # <<>>
    \/ r.error = "EXC:PdfReadError"
DirectAccepted(r) ==
    r.success /\ r.data.raw # <<>> /\ Strip(r.data.raw) # <<>>

\* `if not force_ocr and self.pdf_reader_available`
TryDirectIgnoringForce(force, reader) == reader
TryDirect(force, reader) == ~force /\ reader

\* Where extraction goes after the test of the direct result: out through the
\* finally block, or on to the fallback.
PcAfterDirectRetry(accepted) == IF accepted THEN "ex_returned" ELSE "ex_direct"
PcAfterDirect(accepted) == IF accepted THEN "ex_returned" ELSE "ex_fallback"

\* `if not extraction_result["success"]` of process_file
ExtractionFailedNever(r) == FALSE
ExtractionFailed(r) == ~r.success

FileNotFoundResult ==
    MkResult(FALSE, "PDF file not found", "FILE_NOT_FOUND", NoData, "None")

\* The fallback branch: OCR when available, else OCR_NOT_AVAILABLE.
Fallback(ocr, raised, pages) ==
    IF ocr THEN OcrResult(raised, pages) ELSE OcrNotAvailableResult

\* The finally block: unlink the file when temp_file_path is set and exists.
Unlink(files, path) ==
    IF path # 0 /\ path \in files THEN files \ {path} ELSE files

\* --------------------------------------------------------------- inputs

TextAlphabet == {WS, PR}
TextInputs == UNION {[1..n -> TextAlphabet] : n \in 0..MaxTextLen}

PageTexts == {<<>>, <<WS>>, <<PR>>}
PageSeqs == UNION {[1..n -> PageTexts] : n \in 0..MaxPages}

FileIds == 1..MaxTempFiles

\* Generated responses: every short string over the characters, and JSON
\* objects of every shape the validator tells apart, bare or inside prose.
RawAlphabet == {LB, RB, QT, WS, PR}
RawResponses == UNION {[1..n -> RawAlphabet] : n \in 0..MaxLen}

BankNames == {"absent", "A", "B"}
PeriodShapes == {"absent", "str", "dict", "dict_s", "dict_e", "dict_se"}
AccountShapes == {"absent", "list", "str"}
NoteShapes == {"absent", "plain", "brace"}

BankToks(b) ==
    IF b = "A" THEN <<"bnA">> ELSE IF b = "B" THEN <<"bnB">> ELSE <<>>

PeriodToks(p) ==
    CASE p = "absent" -> <<>>
      [] p = "str" -> <<"sp", QT, PR, QT>>
      [] p = "dict" -> <<"sp", LB, RB>>
      [] p = "dict_s" -> <<"sp", LB, "sd", RB>>
      [] p = "dict_e" -> <<"sp", LB, "ed", RB>>
      [] p = "dict_se" -> <<"sp", LB, "sd", "ed", RB>>

AccountToks(a) ==
    IF a = "list" THEN <<"ac0">> ELSE IF a = "str" THEN <<"acS">> ELSE <<>>

\* A note whose string value is plain text, or holds a closing brace.
NoteToks(n) ==
    CASE n = "absent" -> <<>>
      [] n = "plain" -> <<"nt", QT, PR, QT>>
      [] n = "brace" -> <<"nt", QT, RB, QT>>

ObjectOf(b, p, a, n) ==
    <<LB>> \o BankToks(b) \o PeriodToks(p) \o AccountToks(a) \o NoteToks(n)
        \o <<RB>>

Objects ==
    {ObjectOf(b, p, a, n) : b \in BankNames, p \in PeriodShapes,
                            a \in AccountShapes, n \in NoteShapes}

ProseBefore == {<<>>, <<PR, WS>>}
ProseAfter == {<<>>, <<WS, PR>>}

EmbeddedResponses ==
    {pre \o obj \o post : pre \in ProseBefore, obj \in Objects,
                          post \in ProseAfter}

Responses == RawResponses \cup EmbeddedResponses

\* ---------------------------------------------------------------- state

VARIABLES
    processor,            \* "loaded" or "none": self.processor
    pdf_reader_available, \* PDFTextService.pdf_reader_available
    ocr_available,        \* PDFTextService.ocr_available
    fs,                   \* the temporary files that exist on disk
    pc,                   \* where the request in progress stands
    op,                   \* the operation called
    text_content,         \* process_text's argument
    force_ocr,            \* the force_ocr argument
    temp_file,            \* the file NamedTemporaryFile created, 0 before
    temp_file_path,       \* the local temp_file_path, 0 for None
    direct_result,        \* what _extract_text_directly returned
    extraction_result,    \* what extract_text_from_pdf_bytes returned
    response,             \* what processor.process returned
    json_content,         \* what _extract_json_from_text returned
    inferred,             \* "no", or how processor.process ended
    prompt,               \* the prompt processor.process built
    stages,               \* the pipeline stages entered, in order
    calls,                \* invocations made for this request
    health,               \* what get_health_status returned
    inflight,             \* the requests in flight together, each with its position
    result                \* what the operation returned

vars ==
    <<processor, pdf_reader_available, ocr_available, fs, pc, op,
      text_content, force_ocr, temp_file, temp_file_path, direct_result,
      extraction_result, response, json_content, inferred, prompt,
      stages, calls, health, inflight, result>>

service == <<processor, pdf_reader_available, ocr_available>>

NoCalls == [direct |-> 0, ocr |-> 0, infer |-> 0]

\* get_health_status: is_model_ready and is_pdf_service_ready, read only.
NoHealth == [status |-> "none", model_loaded |-> FALSE,
             pdf_service_available |-> FALSE]
HealthStatus(p, reader, ocr) ==
    [status |-> IF p # "none" /\ IsServiceAvailable(reader, ocr)
                THEN "healthy" ELSE "degraded",
     model_loaded |-> p # "none",
     pdf_service_available |-> IsServiceAvailable(reader, ocr)]

\* processor.process reads self.tokenizer, self.model and self.device and
\* assigns no attribute: the processor is after the call what it was before.
ProcessorAfterTeardown(p) == "none"
ProcessorAfter(p) == p

\* The requests that may be in flight together, and one that has not started.
Reqs == 1..MaxRequests
NewRequest ==
    [pc |-> "new", op |-> "none", requested |-> FALSE, force_ocr |-> FALSE,
     temp_file |-> 0, temp_file_path |-> 0, direct |-> FALSE, read |-> 0,
     success |-> FALSE, error |-> ""]

\* BankStatementService() and PDFTextService() constructed: the model loaded
\* or not (_initialize_processor), each library imported or not.
Init ==
    /\ processor \in {"loaded", "none"}
    /\ pdf_reader_available \in BOOLEAN
    /\ ocr_available \in BOOLEAN
    /\ fs = {}
    /\ pc = "idle"
    /\ op = "none"
    /\ text_content = <<>>
    /\ force_ocr = FALSE
    /\ temp_file = 0
    /\ temp_file_path = 0
    /\ direct_result = NoResult
    /\ extraction_result = NoResult
    /\ response = <<>>
    /\ json_content = <<>>
    /\ inferred = "no"
    /\ prompt = <<>>
    /\ stages = <<>>
    /\ calls = NoCalls
    /\ health = NoHealth
    /\ inflight = [r \in Reqs |-> NewRequest]
    /\ result = NoResult

\* `if not self.processor`
ModelMissingNever(p) == FALSE
ModelMissing(p) == p = "none"

\* process_text up to the call of processor.process: the two early returns,
\* else the call is made.
EnterProcessText(t) ==
    /\ text_content' = t
    /\ IF ModelMissing(processor)
       THEN /\ result' = ModelNotLoadedResult
            /\ pc' = "done"
            /\ UNCHANGED <<calls, prompt, stages>>
       ELSE IF IsBlank(t)
       THEN /\ result' = TextEmptyResult
            /\ pc' = "done"
            /\ UNCHANGED <<calls, prompt, stages>>
       ELSE /\ result' = result
            /\ pc' = "pt_infer"
            /\ calls' = [calls EXCEPT !.infer = @ + 1]
            /\ prompt' = PreparePrompt(t)
            /\ stages' = Append(stages, "inference")

CallProcessText ==
    /\ pc = "idle"
    /\ \E t \in TextInputs : EnterProcessText(t)
    /\ op' = "process_text"
    /\ UNCHANGED <<service, inflight, health, fs, force_ocr, temp_file, temp_file_path,
                   direct_result, extraction_result, response, json_content, inferred>>

\* process_file up to the call of extract_text_from_pdf_bytes.
CallProcessFile ==
    /\ pc = "idle"
    /\ op' = "process_file"
    /\ \E f \in BOOLEAN : force_ocr' = f
    /\ IF ModelMissing(processor)
       THEN result' = ModelNotLoadedResult /\ pc' = "done"
                                           /\ stages' = stages
       ELSE IF ~IsServiceAvailable(pdf_reader_available, ocr_available)
       THEN /\ result' = PdfServiceNotAvailableResult
            /\ pc' = "done"
            /\ stages' = stages
       ELSE /\ result' = result
            /\ pc' = "ex_enter"
            /\ stages' = Append(stages, "acquisition")
    /\ UNCHANGED <<service, inflight, health, fs, text_content, temp_file, temp_file_path,
                   direct_result, extraction_result, response, json_content,
                   inferred, prompt, calls>>

\* extract_text_from_pdf_bytes called on the service itself.
CallExtractBytes ==
    /\ pc = "idle"
    /\ op' = "extract_bytes"
    /\ \E f \in BOOLEAN : force_ocr' = f
    /\ pc' = "ex_enter"
    /\ stages' = Append(stages, "acquisition")
    /\ UNCHANGED <<service, inflight, health, fs, text_content, temp_file, temp_file_path,
                   direct_result, extraction_result, response, json_content,
                   inferred, prompt, calls, result>>

\* extract_text_from_pdf_file called on the service itself: the availability
\* check and os.path.exists, then the same branches on the path given, with
\* no temporary file.
CallExtractFile ==
    /\ pc = "idle"
    /\ op' = "extract_file"
    /\ \E f \in BOOLEAN : force_ocr' = f
    /\ stages' = Append(stages, "acquisition")
    /\ \E exists \in BOOLEAN :
          IF ~IsServiceAvailable(pdf_reader_available, ocr_available)
          THEN extraction_result' = NoLibrariesResult /\ pc' = "ex_returned"
          ELSE IF ~exists
          THEN extraction_result' = FileNotFoundResult /\ pc' = "ex_returned"
          ELSE /\ extraction_result' = extraction_result
               /\ pc' = IF TryDirect(force_ocr', pdf_reader_available)
                        THEN "ex_direct" ELSE "ex_fallback"
    /\ UNCHANGED <<service, inflight, health, fs, text_content, temp_file, temp_file_path,
                   direct_result, response, json_content, inferred, prompt,
                   calls, result>>

\* The availability check, then NamedTemporaryFile(delete=False): a new file
\* on disk, or an exception and no file.
ExtractEnter ==
    /\ pc = "ex_enter"
    /\ IF ~IsServiceAvailable(pdf_reader_available, ocr_available)
       THEN /\ extraction_result' = NoLibrariesResult
            /\ pc' = "ex_returned"
            /\ UNCHANGED <<fs, temp_file>>
       ELSE \/ /\ \E f \in FileIds \ fs :
                    /\ \A g \in FileIds \ fs : f <= g
                    /\ fs' = fs \cup {f}
                    /\ temp_file' = f
               /\ pc' = "ex_write"
               /\ UNCHANGED extraction_result
            \/ /\ extraction_result' = ExtractException("EXC:OSError")
               /\ pc' = "ex_returned"
               /\ UNCHANGED <<fs, temp_file>>
    /\ UNCHANGED <<service, inflight, health, op, text_content, force_ocr, temp_file_path,
                   direct_result, response, json_content, inferred, prompt, stages, calls, result>>

\* temp_file.write(file_content), then temp_file_path = temp_file.name.  When
\* write raises the with block closes the file, temp_file_path is still None
\* and the finally block unlinks nothing.
ExtractWrite ==
    /\ pc = "ex_write"
    /\ \/ /\ temp_file_path' = temp_file
          /\ pc' = IF TryDirect(force_ocr, pdf_reader_available)
                   THEN "ex_direct" ELSE "ex_fallback"
          /\ UNCHANGED <<fs, extraction_result>>
       \/ /\ extraction_result' = ExtractException("EXC:OSError")
          /\ fs' = Unlink(fs, temp_file_path)
          /\ pc' = "ex_returned"
          /\ UNCHANGED temp_file_path
    /\ UNCHANGED <<service, inflight, health, op, text_content, force_ocr, temp_file,
                   direct_result, response, json_content, inferred, prompt, stages, calls, result>>

\* _extract_text_directly and the test of its result; an accepted result is
\* returned through the finally block.
ExtractDirect ==
    /\ pc = "ex_direct"
    /\ \E raised \in BOOLEAN, pages \in PageSeqs :
          /\ raised => pages = <<>>
          /\ direct_result' = DirectResult(raised, pages)
    /\ calls' = [calls EXCEPT !.direct = @ + 1]
    /\ pc' = PcAfterDirect(DirectAccepted(direct_result'))
    /\ IF DirectAccepted(direct_result')
       THEN /\ extraction_result' = direct_result'
            /\ fs' = Unlink(fs, temp_file_path)
       ELSE UNCHANGED <<fs, extraction_result>>
    /\ UNCHANGED <<service, inflight, health, op, text_content, force_ocr, temp_file,
                   temp_file_path, response, json_content, inferred, prompt, stages, result>>

\* The fallback, returned through the finally block.
ExtractFallback ==
    /\ pc = "ex_fallback"
    /\ \E raised \in BOOLEAN, pages \in PageSeqs :
          /\ raised => pages = <<>>
          /\ ~ocr_available => (~raised /\ pages = <<>>)
          /\ extraction_result' = Fallback(ocr_available, raised, pages)
    /\ calls' = IF ocr_available THEN [calls EXCEPT !.ocr = @ + 1] ELSE calls
    /\ fs' = Unlink(fs, temp_file_path)
    /\ pc' = "ex_returned"
    /\ UNCHANGED <<service, inflight, health, op, text_content, force_ocr, temp_file,
                   temp_file_path, direct_result, response, json_content, inferred, prompt, stages,
                   result>>

\* The extraction has returned: to its caller, or into the rest
\* of process_file, which returns a failed extraction as it is and passes
\* extracted text to process_text.
ExtractReturned ==
    /\ pc = "ex_returned"
    /\ IF op # "process_file" \/ ExtractionFailed(extraction_result)
       THEN /\ result' = extraction_result
            /\ pc' = "done"
            /\ UNCHANGED <<text_content, calls, prompt, stages>>
       ELSE EnterProcessText(extraction_result.data.raw)
    /\ UNCHANGED <<service, inflight, health, fs, op, force_ocr, temp_file, temp_file_path,
                   direct_result, extraction_result, response, json_content, inferred>>

\* `result["data"]["extraction_method"] = extraction_method` of process_file.
AnnotateUnknown(r, method) ==
    IF r.success /\ r.data.kind = "dict"
    THEN [r EXCEPT !.data.obj.extraction_method = "unknown"]
    ELSE r
Annotate(r, method) ==
    IF r.success /\ r.data.kind = "dict"
    THEN [r EXCEPT !.data.obj.extraction_method = method]
    ELSE r

\* What processor.process raises: a fault of the tokenizer or of generation.
Faults == {"EXC:RuntimeError"}

\* processor.process returns a response or raises; process_text runs to its
\* return, and process_file annotates a success.
InferReturn ==
    /\ pc = "pt_infer"
    /\ \/ \E r \in Responses :
             /\ response' = r
             /\ inferred' = "returned"
             /\ json_content' = ExtractJson(r)
             /\ stages' = stages \o StagesRun(r)
             /\ result' = IF op = "process_file"
                          THEN Annotate(FinishProcessText(r),
                                        extraction_result.method_used)
                          ELSE FinishProcessText(r)
             /\ pc' = "done"
       \/ \E what \in Faults :
             /\ inferred' = "raised"
             /\ IF CatchesException(what)
                THEN result' = ProcessTextException(what) /\ pc' = "done"
                ELSE IF op = "process_file"
                THEN result' = ProcessFileException(what) /\ pc' = "done"
                ELSE result' = NoResult /\ pc' = "raised"
             /\ UNCHANGED <<response, json_content, stages>>
    /\ processor' = ProcessorAfter(processor)
    /\ UNCHANGED <<pdf_reader_available, ocr_available, inflight, health,
                   fs, op, text_content, force_ocr, temp_file,
                   temp_file_path, direct_result, extraction_result, prompt,
                   calls>>

\* get_health_status called on the service.
GetHealthStatus ==
    /\ pc = "idle"
    /\ op' = "get_health_status"
    /\ health' = HealthStatus(processor, pdf_reader_available, ocr_available)
    /\ pc' = "done"
    /\ UNCHANGED <<service, inflight, fs, text_content, force_ocr, temp_file,
                   temp_file_path, direct_result, extraction_result, response,
                   json_content, inferred, prompt, stages, calls, result>>

\* The operation has returned, or raised to its caller, and the service
\* waits for the next request.
Return ==
    /\ pc \in {"done", "raised"}
    /\ pc' = "idle"
    /\ op' = "none"
    /\ text_content' = <<>>
    /\ force_ocr' = FALSE
    /\ temp_file' = 0
    /\ temp_file_path' = 0
    /\ direct_result' = NoResult
    /\ extraction_result' = NoResult
    /\ response' = <<>>
    /\ json_content' = <<>>
    /\ inferred' = "no"
    /\ prompt' = <<>>
    /\ stages' = <<>>
    /\ calls' = NoCalls
    /\ result' = NoResult
    /\ health' = NoHealth
    /\ UNCHANGED <<service, inflight, fs>>

Next ==
    \/ CallProcessText
    \/ CallProcessFile
    \/ CallExtractBytes
    \/ CallExtractFile
    \/ GetHealthStatus
    \/ ExtractEnter
    \/ ExtractWrite
    \/ ExtractDirect
    \/ ExtractFallback
    \/ ExtractReturned
    \/ InferReturn
    \/ Return

Spec == Init /\ [][Next]_vars

\* ------------------------------------------------- requests in flight

\* The variables of the single request above, left alone here.
single ==
    <<pc, op, text_content, force_ocr, temp_file, temp_file_path,
      direct_result, extraction_result, response, json_content, inferred,
      prompt, stages, calls, health, result>>

\* The positions at which a request is inside the synchronous call of
\* process_file.
SyncPcs == {"ex_enter", "ex_write", "ex_extract", "ex_finally",
            "ex_returned", "pt_infer"}

\* process_file_async calls bank_statement_service.process_file without
\* await and without an executor: the coroutine keeps the event loop until
\* process_file has returned, and the loop runs no other coroutine meanwhile.
LoopAdmitsAlways(r) == TRUE
LoopAdmits(r) == \A q \in Reqs \ {r} : inflight[q].pc \notin SyncPcs

\* The request arrives with its form, in which the client has set a force_ocr
\* field or not; `file_content = await file.read()`: the coroutine yields the
\* loop and is resumed with the content.
RouteReceive(r) ==
    /\ inflight[r].pc = "new"
    /\ \E f \in BOOLEAN :
          inflight' = [inflight EXCEPT ![r].pc = "ready", ![r].op = "route",
                                       ![r].requested = f]
    /\ UNCHANGED <<service, fs, single>>

\* The force_ocr that process_file runs with for a request of the route: the
\* endpoint declares file, customer_id and api_key, and the controller calls
\* process_file(file_content, filename, customer_id), so it is the default.
ControllerForceOcr(requested) == FALSE

\* process_file called by the controller, up to the call of
\* extract_text_from_pdf_bytes.
RouteStart(r) ==
    /\ inflight[r].pc = "ready"
    /\ LET called == [inflight EXCEPT ![r].force_ocr =
                         ControllerForceOcr(inflight[r].requested)]
       IN  inflight' =
             IF ModelMissing(processor)
             THEN [called EXCEPT ![r].pc = "done",
                                 ![r].error = ModelNotLoadedResult.error]
             ELSE IF ~IsServiceAvailable(pdf_reader_available, ocr_available)
             THEN [called EXCEPT ![r].pc = "done",
                                 ![r].error = PdfServiceNotAvailableResult.error]
             ELSE [called EXCEPT ![r].pc = "ex_enter"]
    /\ UNCHANGED <<service, fs, single>>

\* extract_text_from_pdf_bytes called on the shared pdf_text_service by a
\* thread of its own.
ThreadStart(r) ==
    /\ inflight[r].pc = "new"
    /\ \E f \in BOOLEAN :
          inflight' = [inflight EXCEPT ![r].pc = "ex_enter",
                                       ![r].op = "extract_bytes",
                                       ![r].force_ocr = f]
    /\ UNCHANGED <<service, fs, single>>

\* The availability check, then NamedTemporaryFile(delete=False): a file
\* under a name that does not exist yet, or an exception and no file.
ReqEnter(r) ==
    /\ inflight[r].pc = "ex_enter"
    /\ IF ~IsServiceAvailable(pdf_reader_available, ocr_available)
       THEN /\ inflight' = [inflight EXCEPT ![r].pc = "ex_returned",
                                    ![r].error = NoLibrariesResult.error]
            /\ fs' = fs
       ELSE \/ \E f \in FileIds \ fs :
                  /\ fs' = fs \cup {f}
                  /\ inflight' = [inflight EXCEPT ![r].pc = "ex_write",
                                                  ![r].temp_file = f]
            \/ /\ inflight' = [inflight EXCEPT ![r].pc = "ex_returned",
                                                ![r].error = "EXC:OSError"]
               /\ fs' = fs
    /\ UNCHANGED <<service, single>>

\* temp_file.write(file_content), then temp_file_path = temp_file.name; when
\* write raises, temp_file_path is None in the finally block.
ReqWrite(r) ==
    /\ inflight[r].pc = "ex_write"
    /\ \/ inflight' = [inflight EXCEPT ![r].pc = "ex_extract",
                           ![r].temp_file_path = inflight[r].temp_file]
       \/ inflight' = [inflight EXCEPT ![r].pc = "ex_finally",
                                       ![r].error = "EXC:OSError"]
    /\ UNCHANGED <<service, fs, single>>

\* The direct attempt and the fallback read the file at temp_file_path and
\* give text or a failure.
ReqExtract(r) ==
    /\ inflight[r].pc = "ex_extract"
    /\ \E ok \in BOOLEAN, e \in {"NO_TEXT_FOUND", "OCR_NOT_AVAILABLE"} :
          /\ (ok => inflight[r].temp_file_path \in fs)
          /\ (ok /\ inflight[r].force_ocr) => ocr_available
          /\ (e = "OCR_NOT_AVAILABLE") = ~ocr_available
          /\ inflight' = [inflight EXCEPT
                            ![r].pc = "ex_finally",
                            ![r].direct = TryDirect(inflight[r].force_ocr,
                                                    pdf_reader_available),
                            ![r].read = inflight[r].temp_file_path,
                            ![r].success = ok,
                            ![r].error = IF ok THEN "None" ELSE e]
    /\ UNCHANGED <<service, fs, single>>

\* The finally block of extract_text_from_pdf_bytes.
ReqFinally(r) ==
    /\ inflight[r].pc = "ex_finally"
    /\ fs' = Unlink(fs, inflight[r].temp_file_path)
    /\ inflight' = [inflight EXCEPT ![r].pc = "ex_returned"]
    /\ UNCHANGED <<service, single>>

\* The extraction has returned: to the thread that called it, or into the
\* rest of process_file, which calls processor.process on extracted text.
ReqReturned(r) ==
    /\ inflight[r].pc = "ex_returned"
    /\ inflight' =
          IF inflight[r].op = "route" /\ ~ExtractionFailed(inflight[r])
          THEN [inflight EXCEPT ![r].pc = "pt_infer"]
          ELSE [inflight EXCEPT ![r].pc = "done"]
    /\ UNCHANGED <<service, fs, single>>

\* processor.process returns or raises and process_file returns.
ReqInfer(r) ==
    /\ inflight[r].pc = "pt_infer"
    /\ \E e \in {"None", "NO_JSON_FOUND"} \cup Faults :
          inflight' = [inflight EXCEPT ![r].pc = "done",
                                       ![r].success = (e = "None"),
                                       ![r].error = e]
    /\ UNCHANGED <<service, fs, single>>

\* Requests through the /api/process route of one server process.
NextRoute ==
    \E r \in Reqs :
       /\ LoopAdmits(r)
       /\ \/ RouteReceive(r)
          \/ RouteStart(r)
          \/ ReqEnter(r)
          \/ ReqWrite(r)
          \/ ReqExtract(r)
          \/ ReqFinally(r)
          \/ ReqReturned(r)
          \/ ReqInfer(r)

SpecRoute == Init /\ [][NextRoute]_vars

\* Threads that call extract_text_from_pdf_bytes side by side.
NextThreads ==
    \E r \in Reqs :
       \/ ThreadStart(r)
       \/ ReqEnter(r)
       \/ ReqWrite(r)
       \/ ReqExtract(r)
       \/ ReqFinally(r)
       \/ ReqReturned(r)

SpecThreads == Init /\ [][NextThreads]_vars

\* ---------------------------------------------------------------- claims

\* Counting, independent of the scan of _extract_json_from_text.
Positions(t, c) == {k \in 1..Len(t) : t[k] = c}
FirstOf(t, c) ==
    IF Positions(t, c) = {} THEN 0
    ELSE CHOOSE k \in Positions(t, c) : \A m \in Positions(t, c) : k <= m
LastOf(t, c) ==
    IF Positions(t, c) = {} THEN 0
    ELSE CHOOSE k \in Positions(t, c) : \A m \in Positions(t, c) : m <= k
DepthAt(t, i, k) ==
    Cardinality({m \in i..k : t[m] = LB}) - Cardinality({m \in i..k : t[m] = RB})
AllSpace(t) == \A k \in 1..Len(t) : t[k] \in {WS, NL}

\* processor.process returned a response and the operation has returned.
Generated == pc = "done" /\ inferred = "returned"

\* The response is prose without a brace, one well-formed JSON object, and
\* prose without a brace: the object runs from the first '{' to the last '}'.
HoldsOneObject(t) ==
    /\ FirstOf(t, LB) # 0
    /\ LastOf(t, RB) > FirstOf(t, LB)
    /\ ParseJson(SubSeq(t, FirstOf(t, LB), LastOf(t, RB))).ok
TheObject(t) == SubSeq(t, FirstOf(t, LB), LastOf(t, RB))

\* C1 (as claimed): a response holding exactly one balanced top-level JSON
\* object, whatever prose is around it, yields exactly that object's substring.
C1_ExactObject ==
    (Generated /\ HoldsOneObject(response))
        => json_content = TheObject(response)

\* The end of input is reached before the depth, counted from the first '{',
\* is back at zero.
Truncated(t) ==
    /\ FirstOf(t, LB) # 0
    /\ \A k \in FirstOf(t, LB)..Len(t) : DepthAt(t, FirstOf(t, LB), k) # 0

\* C2: a response with unbalanced braces is recovered as nothing and
\* process_text returns NO_JSON_FOUND; whatever is recovered has as many '{'
\* as '}' and is a piece of the response.
C2_TruncatedFails ==
    Generated =>
        /\ Truncated(response) =>
              /\ json_content = <<>>
              /\ ~result.success
              /\ result.error = "NO_JSON_FOUND"
        /\ json_content # <<>> =>
              /\ DepthAt(json_content, 1, Len(json_content)) = 0
              /\ \E i \in 1..Len(response) :
                    json_content = SubSeq(response, i, i + Len(json_content) - 1)

C2_Witness ==
    /\ Generated
    /\ Truncated(response)
    /\ Cardinality(Positions(response, LB)) = 2
    /\ Cardinality(Positions(response, RB)) = 1
    /\ result.error = "NO_JSON_FOUND"

\* An object opens inside the target object before any '}'.
Nested(t) ==
    /\ FirstOf(t, LB) # 0
    /\ \E k \in (FirstOf(t, LB) + 1)..Len(t) :
          /\ t[k] = LB
          /\ \A m \in FirstOf(t, LB)..k : t[m] # RB

\* The first index at which the depth counted from the first '{' is zero.
ClosingIndex(t) ==
    LET i == FirstOf(t, LB)
        Z == {k \in i..Len(t) : DepthAt(t, i, k) = 0}
    IN  IF i = 0 \/ Z = {} THEN 0
        ELSE CHOOSE k \in Z : \A m \in Z : k <= m

\* C3: with nested objects the recovered substring runs from the first '{' to
\* the '}' that brings the depth back to zero, past the first nested '}'.
C3_NestedOuterObject ==
    (Generated /\ Nested(response) /\ ClosingIndex(response) # 0) =>
        /\ json_content =
              SubSeq(response, FirstOf(response, LB), ClosingIndex(response))
        /\ ClosingIndex(response) > FirstOf(response, RB)
        /\ Len(json_content) >
              FirstOf(json_content, RB)

C3_Witness ==
    /\ Generated
    /\ Nested(response)
    /\ ClosingIndex(response) # 0
    /\ ClosingIndex(response) < Len(response)
    /\ FirstOf(response, LB) > 1
    /\ Cardinality(Positions(json_content, RB)) = 2

\* C4: a response without '{' makes the operation fail with NO_JSON_FOUND.
C4_NoBraceNoJson ==
    (Generated /\ Positions(response, LB) = {}) =>
        /\ ~result.success
        /\ result.error = "NO_JSON_FOUND"
        /\ result.data.kind = "raw"
        /\ result.data.raw = response

C4_Witness ==
    /\ Generated
    /\ op = "process_text"
    /\ Positions(response, LB) = {}
    /\ PR \in {response[k] : k \in 1..Len(response)}
    /\ result.error = "NO_JSON_FOUND"

\* The object of the response has bank_name, a statement_period object with
\* both dates, and a list accounts.
WellFormedStatement(o) ==
    /\ o.bank_name # "absent"
    /\ o.statement_period.kind = "dict"
    /\ o.statement_period.start_date # "absent"
    /\ o.statement_period.end_date # "absent"
    /\ o.accounts = "list"

\* C5 (as claimed): a well-formed statement object between prose gives
\* success with the object's bank_name, statement_period and accounts.
C5_EndToEndSuccess ==
    (/\ Generated
     /\ HoldsOneObject(response)
     /\ WellFormedStatement(ParseJson(TheObject(response)).val)) =>
        /\ result.success
        /\ result.data.kind = "dict"
        /\ result.data.obj.bank_name =
              ParseJson(TheObject(response)).val.bank_name
        /\ result.data.obj.statement_period =
              ParseJson(TheObject(response)).val.statement_period
        /\ result.data.obj.accounts =
              ParseJson(TheObject(response)).val.accounts

\* C6 (as claimed): empty or whitespace-only text_content gives TEXT_EMPTY
\* and processor.process is not invoked.
C6_BlankTextEmpty ==
    (pc = "done" /\ op = "process_text" /\ AllSpace(text_content)) =>
        /\ ~result.success
        /\ result.error = "TEXT_EMPTY"
        /\ calls.infer = 0

\* C6 (amended): with the model loaded, empty or whitespace-only text_content
\* gives TEXT_EMPTY; loaded or not, processor.process is not invoked.
C6_BlankTextEmptyWhenLoaded ==
    (op = "process_text" /\ AllSpace(text_content)) =>
        /\ calls.infer = 0
        /\ inferred = "no"
        /\ pc \in {"idle", "done"}
        /\ (pc = "done" /\ processor = "loaded") =>
              /\ ~result.success
              /\ result.error = "TEXT_EMPTY"
              /\ result.data.kind = "none"

C6_Witness ==
    /\ pc = "done"
    /\ op = "process_text"
    /\ processor = "loaded"
    /\ text_content = <<WS>>
    /\ result.error = "TEXT_EMPTY"

\* _validate_result_structure ran: the result carries the parsed object, and
\* success tells what the validator returned.
Validated == Generated /\ result.data.kind = "dict"

\* C7 (as claimed): the validator returns false for an object missing
\* bank_name, missing statement_period.start_date or whose accounts is not a
\* sequence, and true for every other object.
C7_ValidatorAsClaimed ==
    Validated =>
        (result.success <=>
            ~(\/ result.data.obj.bank_name = "absent"
              \/ result.data.obj.statement_period.start_date = "absent"
              \/ result.data.obj.accounts # "list"))

\* C7 (amended): the validator returns false for an object missing bank_name,
\* whose statement_period is not an object holding start_date and end_date,
\* or whose accounts is not a sequence, and true for every other object.
C7_ValidatorWithEndDate ==
    Validated =>
        /\ result.success <=>
              ~(\/ result.data.obj.bank_name = "absent"
                \/ result.data.obj.statement_period.kind # "dict"
                \/ result.data.obj.statement_period.start_date = "absent"
                \/ result.data.obj.statement_period.end_date = "absent"
                \/ result.data.obj.accounts # "list")
        /\ ~result.success => result.error = "INVALID_AI_OUTPUT"

C7_Witness ==
    /\ Validated
    /\ result.error = "INVALID_AI_OUTPUT"
    /\ result.data.obj.bank_name = "A"
    /\ result.data.obj.statement_period.start_date = "2024-01-01"
    /\ result.data.obj.statement_period.end_date = "absent"
    /\ result.data.obj.accounts = "list"

\* extract_text_from_pdf_bytes has returned after a direct extraction that
\* found nothing but whitespace.
DirectFoundNothing ==
    /\ extraction_result # NoResult
    /\ ~force_ocr
    /\ pdf_reader_available
    /\ calls.direct = 1
    /\ direct_result.error = "NO_TEXT_FOUND"

\* C8 (as claimed): after a whitespace-only direct extraction the outcome is
\* by OCR when OCR is available and the error NO_TEXT_FOUND when it is not.
C8_EmptyDirectAsClaimed ==
    DirectFoundNothing =>
        /\ ocr_available => extraction_result.method_used = "ocr"
        /\ ~ocr_available =>
              /\ ~extraction_result.success
              /\ extraction_result.error = "NO_TEXT_FOUND"

\* C8 (amended): after a whitespace-only direct extraction the outcome is by
\* OCR when OCR is available and the error OCR_NOT_AVAILABLE when it is not;
\* no successful outcome carries blank text.
C8_EmptyDirectFallsBack ==
    /\ DirectFoundNothing =>
          /\ ocr_available =>
                /\ extraction_result.method_used = "ocr"
                /\ calls.ocr = 1
          /\ ~ocr_available =>
                /\ ~extraction_result.success
                /\ extraction_result.error = "OCR_NOT_AVAILABLE"
                /\ extraction_result.method_used = "none"
    /\ extraction_result.success => ~AllSpace(extraction_result.data.raw)

C8_Witness ==
    /\ DirectFoundNothing
    /\ ~ocr_available
    /\ pc = "done"
    /\ result.error = "OCR_NOT_AVAILABLE"

\* C9: with no processor, process_text and process_file return
\* MODEL_NOT_LOADED and processor.process is never called.
C9_ModelNotLoaded ==
    (processor = "none" /\ op \in {"process_text", "process_file"}) =>
        /\ pc = "done"
        /\ ~result.success
        /\ result.error = "MODEL_NOT_LOADED"
        /\ result.data.kind = "none"
        /\ calls = NoCalls
        /\ inferred = "no"

C9_Witness ==
    /\ processor = "none"
    /\ op = "process_file"
    /\ pc = "done"
    /\ result.error = "MODEL_NOT_LOADED"

\* C10 (as claimed): when extract_text_from_pdf_bytes has returned, the
\* temporary file it created is no longer on disk.
C10_TempFileRemoved ==
    (pc \in {"ex_returned", "pt_infer", "done"} /\ temp_file # 0)
        => temp_file \notin fs

\* The order the pipeline gives its stages.
StageOrder == <<"acquisition", "inference", "recovery", "parse", "validation">>
Rank(st) == CHOOSE i \in DOMAIN StageOrder : StageOrder[i] = st
Entered(st) == \E i \in DOMAIN stages : stages[i] = st
LastStage == IF stages = <<>> THEN "none" ELSE stages[Len(stages)]
AcquisitionFailed == extraction_result # NoResult /\ ~extraction_result.success

\* C11: the stages are entered in the order acquisition, inference, recovery,
\* parse, validation, each at most once; a stage that fails is the last one
\* entered and the request ends with success=false: process_file returns a
\* failed acquisition as it is without calling inference, the parse is not
\* entered after a failed recovery, nor validation after a failed parse.
C11_StagesShortCircuit ==
    /\ \A i, j \in DOMAIN stages :
          i < j => Rank(stages[i]) < Rank(stages[j])
    /\ (op = "process_file" /\ Entered("inference")) =>
          extraction_result.success
    /\ (op = "process_file" /\ pc = "done" /\ AcquisitionFailed) =>
          /\ result = extraction_result
          /\ ~result.success
          /\ LastStage = "acquisition"
          /\ calls.infer = 0
    /\ (pc = "done" /\ inferred = "raised") =>
          ~result.success /\ LastStage = "inference"
    /\ Entered("parse") => json_content # <<>>
    /\ Entered("validation") => ParseJson(json_content).ok
    /\ (Generated /\ json_content = <<>>) =>
          ~result.success /\ LastStage = "recovery"
    /\ (Generated /\ json_content # <<>> /\ ~ParseJson(json_content).ok) =>
          ~result.success /\ LastStage = "parse"
    /\ (Generated /\ ~result.success) => LastStage # "inference"

C11_Witness ==
    /\ op = "process_file"
    /\ pc = "done"
    /\ AcquisitionFailed
    /\ extraction_result.error = "OCR_NOT_AVAILABLE"
    /\ stages = <<"acquisition">>

\* C12: no exception escapes process_text or process_file: whatever the
\* input and whatever fault the extraction or processor.process raises, the
\* operation returns a result with the fields success, message, data and
\* error, and a failure carries a message and an error.
C12_NoExceptionEscapes ==
    /\ pc # "raised"
    /\ (pc = "done" /\ op \in {"process_text", "process_file"}) =>
          /\ {"success", "message", "data", "error"} \subseteq DOMAIN result
          /\ result.success \in BOOLEAN
          /\ result.message # ""
          /\ ~result.success => result.error # ""
          /\ result # NoResult

C12_Witness ==
    /\ pc = "done"
    /\ op = "process_text"
    /\ inferred = "raised"
    /\ result.message = "Failed to process bank statement"
    /\ result.error \in Faults

\* The error codes of the taxonomy.
Taxonomy ==
    {"MODEL_NOT_LOADED", "TEXT_EMPTY", "NO_EXTRACTION_LIBRARIES",
     "FILE_NOT_FOUND", "NO_TEXT_FOUND", "OCR_NOT_AVAILABLE", "NO_JSON_FOUND",
     "INVALID_JSON_FORMAT", "INVALID_AI_OUTPUT"}

\* C13 (as claimed): every failure result of process_text and process_file
\* has an error that is one of the taxonomy codes, never the text of an
\* exception.
C13_ErrorInTaxonomy ==
    (pc = "done" /\ op \in {"process_text", "process_file"}
                 /\ ~result.success)
        => result.error \in Taxonomy

\* C14: when something was recovered from the response and json.loads fails
\* on it, process_text returns success=false with INVALID_JSON_FORMAT and a
\* data payload that holds the whole response and the recovered substring.
C14_InvalidJsonKeepsBoth ==
    (Generated /\ json_content # <<>> /\ ~ParseJson(json_content).ok) =>
        /\ ~result.success
        /\ result.error = "INVALID_JSON_FORMAT"
        /\ result.data.kind = "diag"
        /\ result.data.raw = response
        /\ result.data.extracted = json_content

C14_Witness ==
    /\ Generated
    /\ json_content # <<>>
    /\ ~ParseJson(json_content).ok
    /\ Len(response) > Len(json_content)
    /\ result.error = "INVALID_JSON_FORMAT"

\* C15 (as claimed): the prompt processor.process builds is the fixed head,
\* then the input text as it was given, then the fixed tail, and another
\* input text would have given another prompt.
C15_PromptHoldsInputText ==
    (pc = "pt_infer") =>
        /\ prompt = PromptHead \o text_content \o PromptTail
        /\ \A t \in TextInputs :
              t # text_content => PreparePrompt(t) # prompt

\* C16: with force_ocr set, _extract_text_directly is never called for the
\* document, in extract_text_from_pdf_bytes (also under process_file) and in
\* extract_text_from_pdf_file; text that comes back was produced by OCR.
C16_ForcedSkipsDirect ==
    (force_ocr /\ op \in {"extract_bytes", "extract_file", "process_file"}) =>
        /\ pc # "ex_direct"
        /\ calls.direct = 0
        /\ direct_result = NoResult
        /\ extraction_result.success => extraction_result.method_used = "ocr"

C16_Witness ==
    /\ force_ocr
    /\ op = "extract_file"
    /\ pdf_reader_available
    /\ pc = "done"
    /\ calls.ocr = 1
    /\ result.success

\* C17: a successful extraction names in method_used the method whose call
\* returned the text: "direct" when the one direct call was accepted and OCR
\* was not run, "ocr" when the one OCR call returned it.  A successful
\* process_file carries that value in data.extraction_method, and the stages
\* entered after the acquisition are those the response alone decides.
C17_MethodUsedProvenance ==
    /\ (extraction_result.success /\ op # "none") =>
          /\ extraction_result.method_used \in {"direct", "ocr"}
          /\ extraction_result.method_used = "direct" =>
                /\ calls.direct = 1 /\ calls.ocr = 0
                /\ extraction_result = direct_result
          /\ extraction_result.method_used = "ocr" =>
                /\ calls.ocr = 1
                /\ extraction_result # direct_result
    /\ (pc = "done" /\ op = "process_file" /\ result.success) =>
          /\ extraction_result.success
          /\ result.data.obj.extraction_method = extraction_result.method_used
    /\ (Generated /\ op = "process_file") =>
          stages = <<"acquisition", "inference">> \o StagesRun(response)

C17_Witness ==
    /\ pc = "done"
    /\ op = "process_file"
    /\ result.success
    /\ calls.direct = 1
    /\ calls.ocr = 1
    /\ result.data.obj.extraction_method = "ocr"

\* C18: every success of process_text and process_file carries both
\* processed_at and processing_time_seconds in its data, and a response whose
\* recovered object parses and passes the validator is a success: the two
\* assignments that stamp it do not fail.
C18_SuccessIsStamped ==
    /\ (pc = "done" /\ op \in {"process_text", "process_file"}
                    /\ result.success) =>
          /\ result.data.kind = "dict"
          /\ result.data.obj.processed_at # "absent"
          /\ result.data.obj.processing_time_seconds # "absent"
    /\ (Generated /\ json_content # <<>> /\ ParseJson(json_content).ok
                  /\ ValidateResultStructure(ParseJson(json_content).val)) =>
          result.success

C18_Witness ==
    /\ Generated
    /\ op = "process_text"
    /\ ParseJson(json_content).ok
    /\ ParseJson(json_content).val.processed_at = "absent"
    /\ result.success
    /\ result.data.obj.processing_time_seconds = "time"

\* C19: within one request _extract_text_directly, _extract_text_with_ocr
\* and processor.process are each called at most once; a direct attempt that
\* was not accepted is not repeated, and after a failed extraction
\* processor.process is not called at all.
C19_NoRetries ==
    /\ calls.direct <= 1
    /\ calls.ocr <= 1
    /\ calls.infer <= 1
    /\ (direct_result # NoResult /\ ~DirectAccepted(direct_result)) =>
          pc # "ex_direct"
    /\ AcquisitionFailed => (calls.infer = 0 /\ pc \in {"ex_returned", "done"})
    /\ (pc = "done" /\ inferred = "raised") => calls.infer = 1

C19_Witness ==
    /\ pc = "done"
    /\ op = "process_file"
    /\ ~DirectAccepted(direct_result)
    /\ calls = [direct |-> 1, ocr |-> 1, infer |-> 1]
    /\ inferred = "raised"
    /\ ~result.success

\* C20 (as claimed): with neither pypdf nor the OCR libraries present, a
\* document request (process_file on a loaded service, or either extraction
\* called directly) fails with NO_EXTRACTION_LIBRARIES, creates no temporary
\* file and attempts no extraction.
C20_NoLibrariesCode ==
    (/\ ~pdf_reader_available /\ ~ocr_available
     /\ pc = "done"
     /\ op \in {"process_file", "extract_bytes", "extract_file"}
     /\ op = "process_file" => processor = "loaded") =>
        /\ ~result.success
        /\ result.error = "NO_EXTRACTION_LIBRARIES"
        /\ temp_file = 0
        /\ calls = NoCalls

\* The request holds a temporary file of its own: created, and the finally
\* block not yet run.
HoldsFile(r) ==
    inflight[r].pc \in {"ex_write", "ex_extract", "ex_finally"}
AllReturned == \A r \in Reqs : inflight[r].pc = "done"

\* The temporary files of requests in flight together are distinct, and a
\* request reads and unlinks only the file it created.
FilesNotShared ==
    /\ \A r, q \in Reqs :
          (r # q /\ HoldsFile(r) /\ HoldsFile(q)) =>
              inflight[r].temp_file # inflight[q].temp_file
    /\ \A r \in Reqs :
          /\ inflight[r].temp_file_path \in {0, inflight[r].temp_file}
          /\ inflight[r].read \in {0, inflight[r].temp_file}
          /\ inflight[r].pc = "ex_extract" => inflight[r].temp_file \in fs

\* C21 (as claimed): under every interleaving of the requests their
\* temporary files are distinct, no request reads or unlinks the file of
\* another, and when all requests have returned no temporary file is left.
C21_TempFilesPerRequest ==
    /\ FilesNotShared
    /\ AllReturned => fs = {}

\* The requests whose call of processor.process is in progress.
Inferring == {r \in Reqs : inflight[r].pc = "pt_infer"}

\* C22: with several requests in flight through the /api/process route, at
\* most one call of processor.process on the shared processor is in progress
\* at any time, and while it is no other request is inside process_file.
C22_InferSerialized ==
    /\ Cardinality(Inferring) <= 1
    /\ \A r \in Inferring :
          \A q \in Reqs \ {r} : inflight[q].pc \notin SyncPcs

C22_Witness ==
    \E r, q \in Reqs :
       /\ r # q
       /\ inflight[r].pc = "pt_infer"
       /\ inflight[q].pc = "ready"

\* C23: when the direct attempt gave text (non-empty after trimming) that
\* text is what the extraction returns, with method_used "direct", and OCR is
\* not run for the document.  OCR runs only when the direct attempt was
\* skipped (force_ocr, or no reader), raised, or found no text.
C23_DirectPreferred ==
    /\ direct_result.success =>
          /\ ~force_ocr /\ pdf_reader_available
          /\ calls.ocr = 0
          /\ pc # "ex_fallback"
          /\ extraction_result = direct_result
          /\ extraction_result.method_used = "direct"
          /\ ~IsBlank(extraction_result.data.raw)
    /\ (calls.ocr > 0 \/ pc = "ex_fallback") =>
          \/ calls.direct = 0 /\ (force_ocr \/ ~pdf_reader_available)
          \/ calls.direct = 1 /\ direct_result.error = "EXC:PdfReadError"
          \/ calls.direct = 1 /\ direct_result.error = "NO_TEXT_FOUND"
    /\ (pc \in {"ex_direct", "ex_fallback"} /\ ~force_ocr
                                            /\ pdf_reader_available) =>
          (pc = "ex_direct" <=> calls.direct = 0)

C23_Witness ==
    /\ pc = "done"
    /\ op = "extract_bytes"
    /\ ocr_available
    /\ direct_result.success
    /\ result.method_used = "direct"
    /\ calls = [direct |-> 1, ocr |-> 0, infer |-> 0]

\* process_text or process_file has returned its result.
Answered == pc = "done" /\ op \in {"process_text", "process_file"}

\* C24: whether the processor is loaded is fixed at construction: no step of
\* process_text, process_file or get_health_status changes it, an unloaded
\* service answers every request with MODEL_NOT_LOADED and only an unloaded
\* one does, and get_health_status reports the same flag.
C24_ModelInitOnce ==
    /\ [][processor' = processor]_vars
    /\ [](Answered =>
            (result.error = "MODEL_NOT_LOADED" <=> processor = "none"))
    /\ []((pc = "done" /\ op = "get_health_status") =>
            (health.model_loaded <=> processor = "loaded"))

C24_Witness ==
    /\ pc = "done"
    /\ op = "process_text"
    /\ inferred = "returned"
    /\ fs # {}
    /\ processor = "loaded"

\* C25 (as claimed): the force_ocr flag a client sends with a document to
\* the route is the force_ocr process_file and the extraction run with, so a
\* request that set it gets no direct extraction.
C25_ForceOcrForwarded ==
    \A r \in Reqs :
       (inflight[r].op = "route" /\ inflight[r].pc \in SyncPcs \cup {"done"}) =>
           /\ inflight[r].force_ocr = inflight[r].requested
           /\ inflight[r].requested => ~inflight[r].direct

\* C26: in every result of process_text and process_file success is true
\* exactly when error is None, and the data of a success is an object that
\* _validate_result_structure accepts.
C26_SuccessIffNoError ==
    Answered =>
        /\ result.success <=> result.error = "None"
        /\ result.success =>
              /\ result.data.kind = "dict"
              /\ ValidateResultStructure(result.data.obj)
              /\ WellFormedStatement(result.data.obj)

C26_Witness ==
    /\ Answered
    /\ op = "process_file"
    /\ result.success
    /\ result.error = "None"
    /\ result.data.obj.extraction_method = "direct"

\* The position is inside a quoted string: an odd number of quotes before it.
InString(t, j) == Cardinality({k \in 1..(j - 1) : t[k] = QT}) % 2 = 1

\* C27: _extract_json_from_text counts every '{' and '}', those inside
\* quoted strings too: a non-empty result starts at the first '{' of the
\* trimmed response and ends with '}', has as many '{' as '}', and each of
\* its proper non-empty prefixes has more '{' than '}'.
C27_CountsEveryBrace ==
    (Generated /\ json_content # <<>>) =>
        LET text == Strip(response)
            n == Len(json_content)
        IN  /\ FirstOf(text, LB) # 0
            /\ json_content =
                  SubSeq(text, FirstOf(text, LB), FirstOf(text, LB) + n - 1)
            /\ json_content[1] = LB
            /\ json_content[n] = RB
            /\ DepthAt(json_content, 1, n) = 0
            /\ \A k \in 1..(n - 1) : DepthAt(json_content, 1, k) > 0

C27_Witness ==
    /\ Generated
    /\ json_content # <<>>
    /\ InString(json_content, Len(json_content))
    /\ Len(Strip(response)) > Len(json_content)

\* C28: the text of every successful extraction is non-empty after
\* trimming, so process_file, once the extraction succeeded, never returns
\* TEXT_EMPTY: with the model loaded it goes on to processor.process.
C28_ExtractedTextNotBlank ==
    /\ extraction_result.success =>
          /\ extraction_result.data.kind = "text"
          /\ ~IsBlank(extraction_result.data.raw)
          /\ Strip(extraction_result.data.raw) # <<>>
    /\ op = "process_file" => result.error # "TEXT_EMPTY"
    /\ (op = "process_file" /\ extraction_result.success
                            /\ pc \in {"pt_infer", "done"}) =>
          /\ text_content = extraction_result.data.raw
          /\ calls.infer = 1

C28_Witness ==
    /\ op = "process_file"
    /\ pc = "done"
    /\ extraction_result.success
    /\ extraction_result.method_used = "ocr"
    /\ \E k \in 1..Len(text_content) : IsSpace(text_content[k])
    /\ inferred = "returned"

\* _extract_text_directly raised inside its try block.
DirectRaised == direct_result.error = "EXC:PdfReadError"

\* C29: an exception inside _extract_text_directly becomes a failed direct
\* result and the extraction goes on: with OCR available OCR is run and the
\* outcome has method_used "ocr", and without it the extraction fails with
\* OCR_NOT_AVAILABLE and method_used "none".
C29_DirectFaultFallsBack ==
    DirectRaised =>
        /\ ~direct_result.success
        /\ direct_result.method_used = "direct"
        /\ pc \in {"ex_fallback", "ex_returned", "pt_infer", "done"}
        /\ pc # "ex_fallback" =>
              IF ocr_available
              THEN /\ calls.ocr = 1
                   /\ extraction_result.method_used = "ocr"
              ELSE /\ calls.ocr = 0
                   /\ ~extraction_result.success
                   /\ extraction_result.error = "OCR_NOT_AVAILABLE"
                   /\ extraction_result.method_used = "none"

C29_Witness ==
    /\ DirectRaised
    /\ ocr_available
    /\ pc = "done"
    /\ op = "extract_bytes"
    /\ result.success
    /\ result.method_used = "ocr"

====
